---- MODULE Spec2Model ----
(***************************************************************************)
(* The SNS trigger dispatcher of terraform-aws-ml                          *)
(* (src/modules/lambda/functions/trigger): lambda_handler walks the        *)
(* records of one delivered event, process_sns_record parses each record,  *)
(* looks the trigger up in TRIGGER_REGISTRY, runs validate() and execute() *)
(* of BatchJobTrigger against the Batch backend and classifies the         *)
(* outcome, with the dead-letter queue and the notification topic as side  *)
(* channels; get_available_triggers lists the schemas of the registry.     *)
(*                                                                         *)
(* A JSON value is a record tagged with its type; strings are sequences of *)
(* one-character strings; a Python dict is a function over its keys, a key *)
(* that is absent is outside its DOMAIN.  A Python call that may raise is  *)
(* an operator returning either [ok |-> TRUE, ...] or                      *)
(* [ok |-> FALSE, exc |-> <exception class>, msg |-> <str(e)>].            *)
(***************************************************************************)
EXTENDS Integers, Sequences, FiniteSets, TLC

\* ------------------------------------------------------------------ bounds

\* Largest number of records in one delivered event.
MaxBatch == 2

\* ------------------------------------------------------------- JSON values

\* A JSON value is a record with one field, named after its type.
JNone == [null |-> TRUE]
JInt(n) == [int |-> n]
JStr(s) == [str |-> s]
JBool(b) == [bool |-> IF b THEN 1 ELSE 0]
JFloat(n) == [float |-> n]
JList(s) == [list |-> s]
JDict(d) == [dict |-> d]

TypeOf(x) == CHOOSE k \in DOMAIN x : TRUE
ValueOf(x) == x[TypeOf(x)]

\* The empty dict {}: a function with an empty domain.
EmptyDict == [k \in {} |-> JNone]

\* Python truthiness of a JSON value (`if x`, `not x`).
Truthy(x) ==
    CASE TypeOf(x) = "null" -> FALSE
      [] TypeOf(x) = "int" -> ValueOf(x) # 0
      [] TypeOf(x) = "bool" -> ValueOf(x) # 0
      [] TypeOf(x) = "float" -> ValueOf(x) # 0
      [] TypeOf(x) = "str" -> Len(ValueOf(x)) > 0
      [] TypeOf(x) = "list" -> Len(ValueOf(x)) > 0
      [] TypeOf(x) = "dict" -> DOMAIN ValueOf(x) # {}

\* dict.get(key, default) on a Python dict d.
DictGet(d, key, default) == IF key \in DOMAIN d THEN d[key] ELSE default

\* isinstance(x, int) for a JSON value: bool is a subclass of int.
IsInt(x) == TypeOf(x) \in {"int", "bool"}

\* Python can hash x (a list or a dict as a dict key raises TypeError).
Hashable(x) == TypeOf(x) \notin {"list", "dict"}

\* ---------------------------------------------------------------- strings

gpu == <<"g", "p", "u">>
cpu == <<"c", "p", "u">>
tpu == <<"t", "p", "u">>
batch_job == <<"b", "a", "t", "c", "h", "_", "j", "o", "b">>
unknown == <<"u", "n", "k", "n", "o", "w", "n">>
DotPy == <<".", "p", "y">>

Letters == {"a", "b", "c", "d", "e", "f", "g", "h", "i", "j", "k", "l", "m",
            "n", "o", "p", "q", "r", "s", "t", "u", "v", "w", "x", "y", "z"}
DigitChars == {"0", "1", "2", "3", "4", "5", "6", "7", "8", "9"}

\* str.isalnum() of one character.
IsAlnum(c) == c \in Letters \cup DigitChars

\* s.endswith(suffix) on sequences of characters.
EndsWith(s, suffix) ==
    /\ Len(s) >= Len(suffix)
    /\ SubSeq(s, Len(s) - Len(suffix) + 1, Len(s)) = suffix

\* The greatest index of character c in s, 0 when s has none.
LastIndexOf(s, c) ==
    LET hits == {i \in 1..Len(s) : s[i] = c}
    IN IF hits = {} THEN 0 ELSE CHOOSE i \in hits : \A j \in hits : j <= i

\* s.split('/')[-1]: what follows the last '/'.
LastSegment(s) == SubSeq(s, LastIndexOf(s, "/") + 1, Len(s))

\* s.rsplit('.', 1)[0]: what precedes the last '.', all of s when it has none.
StripExtension(s) ==
    IF LastIndexOf(s, ".") = 0 THEN s ELSE SubSeq(s, 1, LastIndexOf(s, ".") - 1)

DigitOf(n) ==
    CASE n = 0 -> "0" [] n = 1 -> "1" [] n = 2 -> "2" [] n = 3 -> "3"
      [] n = 4 -> "4" [] n = 5 -> "5" [] n = 6 -> "6" [] n = 7 -> "7"
      [] n = 8 -> "8" [] n = 9 -> "9"

\* A number below 100 as two digits (%d, %H, %M, %S).
TwoDigits(n) == <<DigitOf(n \div 10), DigitOf(n % 10)>>

RECURSIVE Digits(_)
\* str(n) of a natural number.
Digits(n) == IF n < 10 THEN <<DigitOf(n)>> ELSE Digits(n \div 10) \o <<DigitOf(n % 10)>>

\* str(x) of a JSON scalar, as execute() renders environment and resource values.
PyStr(x) ==
    CASE TypeOf(x) = "str" -> ValueOf(x)
      [] TypeOf(x) = "int" -> IF ValueOf(x) < 0 THEN <<"-">> \o Digits(0 - ValueOf(x)) ELSE Digits(ValueOf(x))
      [] TypeOf(x) = "null" -> <<"N", "o", "n", "e">>
      [] TypeOf(x) = "bool" -> IF ValueOf(x) = 1 THEN <<"T", "r", "u", "e">> ELSE <<"F", "a", "l", "s", "e">>
      [] OTHER -> <<"?">>

\* F applied to the value of e: e is evaluated once, however often F uses it.
With(e, F(_)) == CHOOSE r \in {F(x) : x \in {e}} : TRUE

\* ------------------------------------------------------------- exceptions

\* The Python classes an `except Exception` clause catches.
ExceptionClasses ==
    {"Exception", "TriggerError", "ValidationError", "ExecutionError", "KeyError",
     "TypeError", "AttributeError", "ValueError", "JSONDecodeError", "ClientError"}

\* Except clauses that catch every exception.
IsSubclass_Broad(exc, class) == TRUE

\* issubclass(exc, class) for the exception classes above.
IsSubclass(exc, class) ==
    \/ exc = class
    \/ class = "Exception" /\ exc \in ExceptionClasses
    \/ class = "TriggerError" /\ exc \in {"ValidationError", "ExecutionError"}
    \/ class = "ValueError" /\ exc = "JSONDecodeError"

\* str(e) is the format of the message followed by what is put into it, each a
\* sequence of strings.
Message(fmt, parts) == <<<<fmt>>>> \o parts
Raise(class, fmt, parts) == [ok |-> FALSE, exc |-> class, msg |-> Message(fmt, parts)]
Return(val) == [ok |-> TRUE, val |-> val]

\* ------------------------------------------------------------ BaseTrigger

TRIGGER_NAME == batch_job
REQUIRED_FIELDS == <<"script_key">>
OPTIONAL_FIELDS ==
    [compute_type |-> JStr(gpu), vcpus |-> JNone, memory |-> JNone, gpus |-> JNone,
     timeout |-> JInt(3600), additional_env |-> JDict(EmptyDict), job_name |-> JNone]

\* The integer an environment variable holds, int(os.environ.get(name, default)).
RECURSIVE ParseInt(_)
ParseInt(s) ==
    IF Len(s) = 0 THEN 0
    ELSE 10 * ParseInt(SubSeq(s, 1, Len(s) - 1))
         + (CHOOSE d \in 0..9 : DigitOf(d) = s[Len(s)])

EnvGet(environ, name, default) == IF name \in DOMAIN environ THEN environ[name] ELSE default

\* BaseTrigger.__init__ and BatchJobTrigger.__init__: the trigger object, or the
\* KeyError of a deployment variable that os.environ[...] does not find.
BatchJobTrigger(message, environ) ==
    LET required == <<"BATCH_JOB_QUEUE", "ML_PYTHON_JOB_DEFINITION", "ML_OUTPUT_BUCKET">>
        absent == {i \in 1..Len(required) : required[i] \notin DOMAIN environ}
        \* the three are read in the order queue, definition, (cpu ones), bucket
        first == CHOOSE i \in absent : \A j \in absent : i <= j
    IN IF absent # {}
       THEN Raise("KeyError", "'{}'", <<<<required[first]>>>>)
       ELSE Return(
           [data |-> DictGet(message, "data", JDict(EmptyDict)),
            metadata |-> DictGet(message, "metadata", JDict(EmptyDict)),
            gpu_job_queue |-> environ["BATCH_JOB_QUEUE"],
            gpu_job_definition |-> environ["ML_PYTHON_JOB_DEFINITION"],
            cpu_job_queue |-> EnvGet(environ, "CPU_JOB_QUEUE", <<>>),
            cpu_job_definition |-> EnvGet(environ, "ML_PYTHON_CPU_JOB_DEFINITION", <<>>),
            output_bucket |-> environ["ML_OUTPUT_BUCKET"],
            input_bucket |-> EnvGet(environ, "ML_INPUT_BUCKET", <<>>),
            default_gpu_vcpus |-> ParseInt(EnvGet(environ, "DEFAULT_GPU_VCPUS", <<"4">>)),
            default_gpu_memory |->
                ParseInt(EnvGet(environ, "DEFAULT_GPU_MEMORY", <<"1", "6", "3", "8", "4">>)),
            default_gpu_gpus |-> ParseInt(EnvGet(environ, "DEFAULT_GPU_GPUS", <<"1">>)),
            default_cpu_vcpus |-> ParseInt(EnvGet(environ, "DEFAULT_CPU_VCPUS", <<"2">>)),
            default_cpu_memory |->
                ParseInt(EnvGet(environ, "DEFAULT_CPU_MEMORY", <<"4", "0", "9", "6">>))])

\* self.get_optional(key, default): self.data.get(key, default); data that is no
\* dict has no .get (AttributeError).
get_optional(self, key, default) ==
    IF TypeOf(self.data) = "dict" THEN Return(DictGet(ValueOf(self.data), key, default))
    ELSE Raise("AttributeError", "object has no attribute 'get'", <<<<TypeOf(self.data)>>>>)

\* self.get_metadata(key, default): self.metadata.get(key, default).
get_metadata(self, key, default) ==
    IF TypeOf(self.metadata) = "dict" THEN Return(DictGet(ValueOf(self.metadata), key, default))
    ELSE Raise("AttributeError", "object has no attribute 'get'", <<<<TypeOf(self.metadata)>>>>)

\* BaseTrigger.as_dict: the schema of the trigger.
as_dict(self) ==
    [trigger_type |-> TRIGGER_NAME,
     required_fields |-> REQUIRED_FIELDS,
     optional_fields |-> OPTIONAL_FIELDS]

\* `field in self.data`: a key of a dict; a list is searched for an element
\* equal to the field name, and the lists of the model hold none.
HasField(data, field) == TypeOf(data) = "dict" /\ field \in DOMAIN ValueOf(data)

\* Defaults taken from the gpu profile whatever the compute type.
ResolveDefaults_GpuOnly(self, compute_type, vcpus, memory, gpus) ==
    [vcpus |-> IF vcpus = JNone THEN JInt(self.default_gpu_vcpus) ELSE vcpus,
     memory |-> IF memory = JNone THEN JInt(self.default_gpu_memory) ELSE memory,
     gpus |-> IF gpus = JNone THEN JInt(self.default_gpu_gpus) ELSE gpus]

\* A resolution that adds an explicit vcpus to the default.
ResolveDefaults_AddsToDefault(self, compute_type, vcpus, memory, gpus) ==
    [vcpus |-> JInt((IF compute_type = JStr(gpu) THEN self.default_gpu_vcpus
                     ELSE self.default_cpu_vcpus)
                    + (IF IsInt(vcpus) THEN ValueOf(vcpus) ELSE 0)),
     memory |-> IF memory = JNone
                THEN JInt(IF compute_type = JStr(gpu) THEN self.default_gpu_memory
                          ELSE self.default_cpu_memory)
                ELSE memory,
     gpus |-> IF gpus = JNone
              THEN JInt(IF compute_type = JStr(gpu) THEN self.default_gpu_gpus ELSE 0)
              ELSE gpus]

\* The (vcpus, memory, gpus) that the `if x is None: x = default` lines of
\* execute leave.
ResolveDefaults(self, compute_type, vcpus, memory, gpus) ==
    [vcpus |-> IF vcpus = JNone
               THEN JInt(IF compute_type = JStr(gpu) THEN self.default_gpu_vcpus
                         ELSE self.default_cpu_vcpus)
               ELSE vcpus,
     memory |-> IF memory = JNone
                THEN JInt(IF compute_type = JStr(gpu) THEN self.default_gpu_memory
                          ELSE self.default_cpu_memory)
                ELSE memory,
     gpus |-> IF gpus = JNone
              THEN JInt(IF compute_type = JStr(gpu) THEN self.default_gpu_gpus ELSE 0)
              ELSE gpus]

\* A resolution in validate that takes one GPU as the default of every profile.
ValidateDefaults_OneGpuAlways(self, compute_type, vcpus, memory, gpus) ==
    [vcpus |-> IF vcpus = JNone
               THEN JInt(IF compute_type = JStr(gpu) THEN self.default_gpu_vcpus
                         ELSE self.default_cpu_vcpus)
               ELSE vcpus,
     memory |-> IF memory = JNone
                THEN JInt(IF compute_type = JStr(gpu) THEN self.default_gpu_memory
                          ELSE self.default_cpu_memory)
                ELSE memory,
     gpus |-> IF gpus = JNone THEN JInt(self.default_gpu_gpus) ELSE gpus]

\* The `if x is None: x = default` lines of _validate_custom, which are its
\* own copy of the ones in execute: the values its checks are made on.
ValidateDefaults(self, compute_type, vcpus, memory, gpus) ==
    [vcpus |-> IF vcpus = JNone
               THEN JInt(IF compute_type = JStr(gpu) THEN self.default_gpu_vcpus
                         ELSE self.default_cpu_vcpus)
               ELSE vcpus,
     memory |-> IF memory = JNone
                THEN JInt(IF compute_type = JStr(gpu) THEN self.default_gpu_memory
                          ELSE self.default_cpu_memory)
                ELSE memory,
     gpus |-> IF gpus = JNone
              THEN JInt(IF compute_type = JStr(gpu) THEN self.default_gpu_gpus ELSE 0)
              ELSE gpus]

\* `not isinstance(vcpus, int) or vcpus < 1`
VcpusRejected(vcpus) == ~IsInt(vcpus) \/ ValueOf(vcpus) < 1

\* A bound on memory that is one too low.
MemoryRejected_OffByOne(memory) == ~IsInt(memory) \/ ValueOf(memory) < 255

\* `not isinstance(memory, int) or memory < 256`
MemoryRejected(memory) == ~IsInt(memory) \/ ValueOf(memory) < 256

\* A check on gpus that also raises for a 'cpu' job that asks for GPUs.
GpusRejected_Strict(compute_type, gpus) ==
    \/ ~IsInt(gpus)
    \/ compute_type = JStr(gpu) /\ ValueOf(gpus) < 1
    \/ compute_type # JStr(gpu) /\ ValueOf(gpus) # 0

\* The check on gpus that raises: the one of the 'gpu' compute type; the other
\* branch only logs a warning.
GpusRejected(compute_type, gpus) ==
    compute_type = JStr(gpu) /\ (~IsInt(gpus) \/ ValueOf(gpus) < 1)

\* BatchJobTrigger._validate_custom.
_validate_custom(self) ==
    LET script_key == ValueOf(self.data)["script_key"]
        compute_type == DictGet(ValueOf(self.data), "compute_type", JStr(gpu))
        r == ValidateDefaults(self, compute_type,
                              DictGet(ValueOf(self.data), "vcpus", JNone),
                              DictGet(ValueOf(self.data), "memory", JNone),
                              DictGet(ValueOf(self.data), "gpus", JNone))
    IN IF TypeOf(self.data) # "dict"
       THEN Raise("TypeError", "indices must be integers", <<<<TypeOf(self.data)>>>>)
       ELSE IF TypeOf(script_key) # "str"
       THEN Raise("AttributeError", "object has no attribute 'endswith'", <<<<TypeOf(script_key)>>>>)
       ELSE IF ~EndsWith(ValueOf(script_key), DotPy)
       THEN Raise("ValidationError", "batch_job: script_key must be a .py file, got: {}",
                  <<ValueOf(script_key)>>)
       ELSE IF compute_type \notin {JStr(gpu), JStr(cpu)}
       THEN Raise("ValidationError", "batch_job: compute_type must be 'gpu' or 'cpu', got: {}",
                  <<PyStr(compute_type)>>)
       ELSE IF VcpusRejected(r.vcpus)
       THEN Raise("ValidationError", "batch_job: vcpus must be a positive integer", <<>>)
       ELSE IF MemoryRejected(r.memory)
       THEN Raise("ValidationError", "batch_job: memory must be >= 256 MB", <<>>)
       ELSE IF GpusRejected(compute_type, r.gpus)
       THEN Raise("ValidationError", "batch_job: gpus must be >= 1 for GPU compute", <<>>)
       ELSE Return(JNone)

\* validate() that indexes the required fields without checking them first.
validate_Unchecked(self) ==
    LET missing == SelectSeq(REQUIRED_FIELDS, LAMBDA field : ~HasField(self.data, field))
    IN IF TypeOf(self.data) \notin {"dict", "list"}
       THEN Raise("TypeError", "argument is not iterable", <<<<TypeOf(self.data)>>>>)
       ELSE IF Len(missing) > 0
       THEN Raise("KeyError", "'{}'", <<<<missing[1]>>>>)
       ELSE _validate_custom(self)

\* BaseTrigger.validate: every missing required field is named, then the
\* subclass checks run.
validate(self) ==
    LET missing == SelectSeq(REQUIRED_FIELDS, LAMBDA field : ~HasField(self.data, field))
    IN IF TypeOf(self.data) \notin {"dict", "list"}
       THEN Raise("TypeError", "argument is not iterable", <<<<TypeOf(self.data)>>>>)
       ELSE IF Len(missing) > 0
       THEN Raise("ValidationError", "{}: Missing required fields: {}", <<TRIGGER_NAME, missing>>)
       ELSE _validate_custom(self)

\* ------------------------------------------------------------------ clock

\* Instants are whole seconds counted from 2024-03-01T00:00:00.
SecondsPerDay == 86400

DateDigits(t) == TwoDigits(1 + t \div SecondsPerDay)
TimeDigits(t) ==
    <<TwoDigits((t % SecondsPerDay) \div 3600),
      TwoDigits((t % 3600) \div 60),
      TwoDigits(t % 60)>>

\* A timestamp without the seconds, '%Y%m%d-%H%M'.
CompactTimestamp_NoSeconds(t) ==
    <<"2", "0", "2", "4", "0", "3">> \o DateDigits(t) \o <<"-">>
        \o TimeDigits(t)[1] \o TimeDigits(t)[2]

\* datetime.now().strftime('%Y%m%d-%H%M%S') at instant t.
CompactTimestamp(t) ==
    <<"2", "0", "2", "4", "0", "3">> \o DateDigits(t) \o <<"-">>
        \o TimeDigits(t)[1] \o TimeDigits(t)[2] \o TimeDigits(t)[3]

\* datetime.now().strftime('%Y-%m-%d') at instant t.
IsoDate(t) == <<"2", "0", "2", "4", "-", "0", "3", "-">> \o DateDigits(t)

\* datetime.now().isoformat() at instant t.
IsoFormat(t) ==
    IsoDate(t) \o <<"T">> \o TimeDigits(t)[1] \o <<":">> \o TimeDigits(t)[2]
        \o <<":">> \o TimeDigits(t)[3]

\* -------------------------------------------------------- BatchJobTrigger

\* AWS Batch's limit on the length of a job name.
MaxJobNameLength == 128

\* A name cut to the limit as a whole, timestamp included.
_generate_job_name_CutWhole(script_key, t) ==
    LET filename == StripExtension(LastSegment(script_key))
        job_name == [i \in 1..Len(filename) |->
                        IF IsAlnum(filename[i]) \/ filename[i] \in {"-", "_"}
                        THEN filename[i] ELSE "-"]
        whole == job_name \o <<"-">> \o CompactTimestamp(t)
    IN IF Len(whole) <= MaxJobNameLength THEN whole ELSE SubSeq(whole, 1, MaxJobNameLength)

\* BatchJobTrigger._generate_job_name, the clock read at instant t.
_generate_job_name(script_key, t) ==
    LET filename == StripExtension(LastSegment(script_key))
        job_name == [i \in 1..Len(filename) |->
                        IF IsAlnum(filename[i]) \/ filename[i] \in {"-", "_"}
                        THEN filename[i] ELSE "-"]
        timestamp == CompactTimestamp(t)
        max_name_length == MaxJobNameLength - Len(timestamp) - 1
        cut == IF Len(job_name) <= max_name_length THEN job_name
               ELSE SubSeq(job_name, 1, max_name_length)
    IN cut \o <<"-">> \o timestamp

\* A prefix of the date alone.
_generate_output_prefix_NoName(job_name, t) ==
    <<"r", "e", "s", "u", "l", "t", "s", "/">> \o IsoDate(t) \o <<"/">>

\* BatchJobTrigger._generate_output_prefix, the clock read at instant t.
_generate_output_prefix(job_name, t) ==
    <<"r", "e", "s", "u", "l", "t", "s", "/">> \o IsoDate(t) \o <<"/">> \o job_name \o <<"/">>

\* dict.update: the keys of `extra` are added to `base` and replace its own.
DictUpdate(base, extra) ==
    [k \in DOMAIN base \cup DOMAIN extra |-> IF k \in DOMAIN extra THEN extra[k] ELSE base[k]]

\* A selection that sends every job to the GPU queue.
SelectQueue_AlwaysGpu(self, compute_type) ==
    [job_queue |-> self.gpu_job_queue, job_definition |-> self.gpu_job_definition]

\* `if compute_type == 'cpu'`: the queue and the job definition of the profile.
SelectQueue(self, compute_type) ==
    IF compute_type = JStr(cpu)
    THEN [job_queue |-> self.cpu_job_queue, job_definition |-> self.cpu_job_definition]
    ELSE [job_queue |-> self.gpu_job_queue, job_definition |-> self.gpu_job_definition]

\* The submission request and the success result execute builds from its
\* resolved values: the environment, the resource requirements, the timeout.
BuildSubmission(self, clk, job_id, script_key, compute_type, timeout, additional_env, r, job_name) ==
    LET job_queue == SelectQueue(self, compute_type).job_queue
        job_definition == SelectQueue(self, compute_type).job_definition
        job_env ==
            [INPUT_BUCKET |-> JStr(self.input_bucket),
             INPUT_KEY |-> script_key,
             OUTPUT_BUCKET |-> JStr(self.output_bucket),
             OUTPUT_PREFIX |-> JStr(_generate_output_prefix(PyStr(job_name), clk.prefix)),
             TIMESTAMP |-> JStr(IsoFormat(clk.stamp)),
             TRIGGER_USER |-> get_metadata(self, "user", JStr(unknown)).val,
             TRIGGER_PROJECT |-> get_metadata(self, "project", JStr(unknown)).val,
             TRIGGER_EXPERIMENT |-> get_metadata(self, "experiment", JStr(<<>>)).val,
             COMPUTE_TYPE |-> compute_type]
        resource_requirements ==
            <<[type |-> "VCPU", value |-> PyStr(r.vcpus)],
              [type |-> "MEMORY", value |-> PyStr(r.memory)]>>
            \o IF compute_type = JStr(gpu)
               THEN <<[type |-> "GPU", value |-> PyStr(r.gpus)]>> ELSE <<>>
    IN With(job_env, LAMBDA env :
       With(DictUpdate(env, ValueOf(additional_env)), LAMBDA merged :
          [submit_params |->
              [jobName |-> job_name,
               jobQueue |-> job_queue,
               jobDefinition |-> job_definition,
               resourceRequirements |-> resource_requirements,
               environment |->
                   [k \in {n \in DOMAIN merged : Truthy(merged[n])} |-> PyStr(merged[k])],
               \* `if timeout and timeout > 0`: JNone stands for no timeout key
               timeout |-> IF Truthy(timeout) /\ ValueOf(timeout) > 0 THEN timeout ELSE JNone],
           result |->
              [status |-> "success",
               job_id |-> job_id,
               job_name |-> job_name,
               script_key |-> script_key,
               compute_type |-> compute_type,
               resources |-> [vcpus |-> r.vcpus,
                              memory |-> r.memory,
                              gpus |-> IF compute_type = JStr(gpu) THEN r.gpus ELSE JInt(0)],
               \* job_env is read after job_env.update(additional_env)
               output_prefix |-> merged.OUTPUT_PREFIX,
               submission_time |-> IsoFormat(clk.submitted),
               details |-> [user |-> merged.TRIGGER_USER,
                            project |-> merged.TRIGGER_PROJECT,
                            experiment |-> merged.TRIGGER_EXPERIMENT]]]))

\* The body of the try block of BatchJobTrigger.execute.  clk gives the instant
\* of each clock read, `answer` what the backend does with a submission and
\* job_id the identifier it hands out.  calls: the submissions made.
execute_try(self, clk, answer, job_id) ==
    LET data == ValueOf(self.data)
        script_key == data["script_key"]
        compute_type == DictGet(data, "compute_type", JStr(gpu))
        timeout == DictGet(data, "timeout", OPTIONAL_FIELDS.timeout)
        additional_env == DictGet(data, "additional_env", JDict(EmptyDict))
        r == ResolveDefaults(self, compute_type,
                             DictGet(data, "vcpus", JNone),
                             DictGet(data, "memory", JNone),
                             DictGet(data, "gpus", JNone))
        given_name == DictGet(data, "job_name", JNone)
        user == get_metadata(self, "user", JStr(unknown))
        NoCall(e) == [res |-> e, calls |-> <<>>]
    IN IF TypeOf(self.data) # "dict"
       THEN NoCall(Raise("TypeError", "indices must be integers", <<<<TypeOf(self.data)>>>>))
       ELSE IF "script_key" \notin DOMAIN data
       THEN NoCall(Raise("KeyError", "'{}'", <<<<"script_key">>>>))
       ELSE IF ~Truthy(given_name) /\ TypeOf(script_key) # "str"
       THEN NoCall(Raise("AttributeError", "object has no attribute 'split'",
                         <<<<TypeOf(script_key)>>>>))
       ELSE IF ~user.ok
       THEN NoCall(user)
       ELSE IF TypeOf(additional_env) # "dict"
       THEN NoCall(Raise("TypeError", "object is not iterable", <<<<TypeOf(additional_env)>>>>))
       ELSE IF Truthy(timeout) /\ TypeOf(timeout) \notin {"int", "bool", "float"}
       THEN NoCall(Raise("TypeError", "'>' not supported between instances of '{}' and 'int'",
                         <<<<TypeOf(timeout)>>>>))
       ELSE With(IF ~Truthy(given_name)
                 THEN JStr(_generate_job_name(ValueOf(script_key), clk.name))
                 ELSE given_name,
                 LAMBDA job_name :
            With(BuildSubmission(self, clk, job_id, script_key, compute_type, timeout,
                                 additional_env, r, job_name),
                 LAMBDA built :
               IF answer # "accept"
               THEN [res |-> Raise("ClientError",
                                   "An error occurred when calling the SubmitJob operation", <<>>),
                     calls |-> <<built.submit_params>>]
               ELSE [res |-> Return(built.result), calls |-> <<built.submit_params>>]))

\* The class named by the first except clause of execute,
\* self.validate.__class__.__bases__[0]: validate is a bound method, the class
\* of a bound method is `method`, and the only base of `method` is `object`.
FirstExceptClass == "object"

\* BatchJobTrigger.execute: the try block and its two except clauses.  Python
\* matches a raised exception against the clauses in order, and matching it
\* against a class that does not inherit from BaseException raises TypeError
\* from the except clause itself, which no later clause of the same try catches.
execute(self, clk, answer, job_id) ==
    With(execute_try(self, clk, answer, job_id), LAMBDA body :
       IF body.res.ok
       THEN body
       ELSE IF FirstExceptClass \notin ExceptionClasses \cup {"BaseException"}
       THEN [res |-> Raise("TypeError",
                           "catching classes that do not inherit from BaseException is not allowed",
                           <<>>),
             calls |-> body.calls]
       ELSE IF IsSubclass(body.res.exc, FirstExceptClass)
       THEN [res |-> Raise("ExecutionError", "Batch job validation failed: {}", body.res.msg),
             calls |-> body.calls]
       ELSE [res |-> Raise("ExecutionError", "Failed to submit Batch job: {}", body.res.msg),
             calls |-> body.calls])

\* -------------------------------------------------------------- dispatcher

\* str.lower() on the characters the deployment flags are written with.
Lower(s) ==
    [i \in 1..Len(s) |->
        CASE s[i] = "T" -> "t" [] s[i] = "R" -> "r" [] s[i] = "U" -> "u"
          [] s[i] = "E" -> "e" [] OTHER -> s[i]]

\* The module-level settings of dispatcher.py, read from the environment.
ENABLE_NOTIFICATIONS(environ) ==
    Lower(EnvGet(environ, "ENABLE_NOTIFICATIONS", <<"f", "a", "l", "s", "e">>))
        = <<"t", "r", "u", "e">>
SNS_TOPIC_ARN(environ) == EnvGet(environ, "SNS_TOPIC_ARN", <<>>)
DLQ_URL(environ) == EnvGet(environ, "DLQ_URL", <<>>)

\* Notifications gated by the flag alone.
NotificationsEnabled_FlagOnly(environ) == ENABLE_NOTIFICATIONS(environ)

\* `if ENABLE_NOTIFICATIONS and SNS_TOPIC_ARN`
NotificationsEnabled(environ) ==
    ENABLE_NOTIFICATIONS(environ) /\ Truthy(JStr(SNS_TOPIC_ARN(environ)))

\* The keys of TRIGGER_REGISTRY, in the order of the dict.
TRIGGER_REGISTRY == <<batch_job>>

RegistryHas(trigger_type) ==
    TypeOf(trigger_type) = "str" /\ \E k \in 1..Len(TRIGGER_REGISTRY) : TRIGGER_REGISTRY[k] = ValueOf(trigger_type)

\* json.loads whose failure is reported as a ValidationError.
json_loads_AsValidation(raw) ==
    IF "json" \in DOMAIN raw THEN Return(raw.json)
    ELSE Raise("ValidationError", "Expecting value", <<<<raw.garbage>>>>)

\* json.loads of a raw message string: a string is either the serialisation of
\* a JSON value, [json |-> value], or text that is no JSON, [garbage |-> text].
json_loads(raw) ==
    IF "json" \in DOMAIN raw THEN Return(raw.json)
    ELSE Raise("JSONDecodeError", "Expecting value", <<<<raw.garbage>>>>)

\* A dispatcher without the `if not trigger_type` check.
MissingTriggerType_Unchecked(trigger_type) == FALSE

\* `if not trigger_type`: the message names no trigger type.
MissingTriggerType(trigger_type) == ~Truthy(trigger_type)

\* The error of an unknown trigger type without the list of the registry.
UnknownTriggerError_NoList(trigger_type) ==
    Raise("ValidationError", "Unknown trigger type: {}. Available triggers: {}",
          <<PyStr(trigger_type)>>)

\* The ValidationError of a trigger type the registry does not hold; its
\* message joins the keys of TRIGGER_REGISTRY.
UnknownTriggerError(trigger_type) ==
    Raise("ValidationError", "Unknown trigger type: {}. Available triggers: {}",
          <<PyStr(trigger_type)>> \o TRIGGER_REGISTRY)

\* The steps of the try block of process_sns_record once the message is
\* parsed: the lookup, the trigger's construction, validate() and execute().
\* stage: the step the block ended in.
dispatch_message(record, message, environ, clk, answer, job_id) ==
    LET trigger_type == DictGet(ValueOf(message), "trigger_type", JNone)
        Stop(e, stage, calls) == [res |-> e, calls |-> calls, stage |-> stage]
    IN IF TypeOf(message) # "dict"
       THEN Stop(Raise("AttributeError", "object has no attribute 'get'", <<<<TypeOf(message)>>>>),
                 "lookup", <<>>)
       ELSE IF MissingTriggerType(trigger_type)
       THEN Stop(Raise("ValidationError", "Message must include 'trigger_type' field", <<>>),
                 "lookup", <<>>)
       ELSE IF ~Hashable(trigger_type)
       THEN Stop(Raise("TypeError", "unhashable type", <<<<TypeOf(trigger_type)>>>>),
                 "lookup", <<>>)
       ELSE IF ~RegistryHas(trigger_type)
       THEN Stop(UnknownTriggerError(trigger_type), "lookup", <<>>)
       ELSE With(BatchJobTrigger(ValueOf(message), environ), LAMBDA trigger :
          IF ~trigger.ok
          THEN Stop(trigger, "construct", <<>>)
          ELSE With(validate(trigger.val), LAMBDA checked :
             IF ~checked.ok
             THEN Stop(checked, "validate", <<>>)
             ELSE With(execute(trigger.val, clk, answer, job_id), LAMBDA done :
                IF ~done.res.ok
                THEN Stop(done.res, "execute", done.calls)
                ELSE IF "MessageId" \notin DOMAIN record["Sns"]
                THEN Stop(Raise("KeyError", "'{}'", <<<<"MessageId">>>>), "finish", done.calls)
                ELSE Stop(Return(DictUpdate(done.res.val,
                                            [trigger_type |-> trigger_type,
                                             message_id |-> record["Sns"]["MessageId"],
                                             timestamp |-> IsoFormat(clk.outcome)])),
                          "returned", done.calls))))

\* The try block of process_sns_record up to `return result`, without the
\* success notification.  stage: the step it ended in, one of Stages.
dispatch(record, environ, clk, answer, job_id) ==
    LET Stop(e, stage) == [res |-> e, calls |-> <<>>, stage |-> stage]
    IN IF "Sns" \notin DOMAIN record
       THEN Stop(Raise("KeyError", "'{}'", <<<<"Sns">>>>), "record")
       ELSE IF "Message" \notin DOMAIN record["Sns"]
       THEN Stop(Raise("KeyError", "'{}'", <<<<"Message">>>>), "record")
       ELSE With(json_loads(record["Sns"]["Message"]), LAMBDA loaded :
          IF ~loaded.ok
          THEN Stop(loaded, "parse")
          ELSE dispatch_message(record, loaded.val, environ, clk, answer, job_id))

\* format_notification: the lines of the text, as the fields they are made of.
format_notification(result) ==
    IF result.status = "success"
    THEN [headline |-> "TRIGGER EXECUTION SUCCESSFUL",
          trigger_type |-> result.trigger_type,
          job_id |-> result.job_id,
          job_name |-> result.job_name,
          details |-> [k \in {n \in DOMAIN result.details : Truthy(result.details[n])}
                          |-> result.details[k]],
          timestamp |-> result.timestamp]
    ELSE [headline |-> "TRIGGER EXECUTION FAILED",
          error_type |-> result.error_type,
          error |-> result.error_message,
          timestamp |-> result.timestamp]

\* What the except clause of send_notification and of send_to_dlq makes of
\* the call's result: an exception is logged and the function returns None.
LoggedAndDropped(called) ==
    IF ~called.ok /\ IsSubclass(called.exc, "Exception") THEN Return(JNone) ELSE called

\* sns_client.publish: returns, or raises the error of the service.
publish(publish_ok) ==
    IF publish_ok THEN Return(JNone)
    ELSE Raise("ClientError", "An error occurred when calling the Publish operation", <<>>)

\* sqs_client.send_message: returns, or raises the error of the service.
send_message(send_ok) ==
    IF send_ok THEN Return(JNone)
    ELSE Raise("ClientError", "An error occurred when calling the SendMessage operation", <<>>)

\* A send_notification without its try: the error of the publish leaves it.
send_notification_Unguarded(environ, subject, message, message_type, publish_ok) ==
    [calls |-> <<[TopicArn |-> SNS_TOPIC_ARN(environ), Subject |-> subject, Message |-> message,
                  message_type |-> message_type, delivered |-> publish_ok]>>,
     res |-> publish(publish_ok)]

\* send_notification: one publish inside try/except Exception.  calls: the
\* publish made; res: what the function returns or raises.
send_notification(environ, subject, message, message_type, publish_ok) ==
    [calls |-> <<[TopicArn |-> SNS_TOPIC_ARN(environ), Subject |-> subject, Message |-> message,
                  message_type |-> message_type, delivered |-> publish_ok]>>,
     res |-> LoggedAndDropped(publish(publish_ok))]

\* send_to_dlq: one send_message inside try/except Exception.  calls: the
\* send made; res: what the function returns or raises.
send_to_dlq(environ, message, error_details, t, send_ok) ==
    [calls |-> <<[QueueUrl |-> DLQ_URL(environ),
                  MessageBody |-> [original_message |-> message, error |-> error_details,
                                   timestamp |-> IsoFormat(t)],
                  error_type |-> error_details.error_type,
                  delivered |-> send_ok]>>,
     res |-> LoggedAndDropped(send_message(send_ok))]

\* The error Outcome Record the three except clauses of process_sns_record build.
ErrorResult(kind, e, record, t) ==
    [status |-> "error",
     error_type |-> kind,
     error_message |-> e.msg,
     message_id |-> DictGet(record["Sns"], "MessageId", unknown),
     timestamp |-> IsoFormat(t)]

\* process_sns_record: res is the Outcome Record it returns or the exception
\* that escapes it; calls, sent and published are the backend submissions,
\* dead-letter sends and notification publishes it made.  An exception raised
\* by the success notification is raised inside the try block and goes to its
\* except clauses; one raised inside an except clause leaves the function.
process_sns_record(record, environ, clk, answer, job_id, publish_ok, send_ok) ==
    With(dispatch(record, environ, clk, answer, job_id), LAMBDA try :
    LET Nothing == [calls |-> <<>>, res |-> Return(JNone)]
        Notice(subject, result, message_type) ==
            IF NotificationsEnabled(environ)
            THEN send_notification(environ, subject, format_notification(result),
                                   message_type, publish_ok)
            ELSE Nothing
        Out(res, sent, notices) ==
            [res |-> res, calls |-> try.calls, sent |-> sent, published |-> notices,
             stage |-> try.stage,
             raised |-> IF try.res.ok THEN "none" ELSE try.res.exc]
    IN IF try.res.ok
       THEN With(Notice(Message("ML Trigger Success: {}", <<PyStr(try.res.val.trigger_type)>>),
                        try.res.val, "success"), LAMBDA notice :
               IF notice.res.ok
               THEN Out(try.res, <<>>, notice.calls)
               \* the error of a service is neither of the two trigger errors
               ELSE Out(Return(ErrorResult("unexpected", notice.res, record, clk.outcome)),
                        <<>>, notice.calls))
       ELSE IF IsSubclass(try.res.exc, "ValidationError")
       THEN With(ErrorResult("validation", try.res, record, clk.outcome), LAMBDA error_result :
            With(Notice(Message("ML Trigger Validation Error", <<>>), error_result, "error"),
                 LAMBDA notice :
               Out(IF notice.res.ok THEN Return(error_result) ELSE notice.res,
                   <<>>, notice.calls)))
       ELSE IF IsSubclass(try.res.exc, "ExecutionError")
       THEN With(ErrorResult("execution", try.res, record, clk.outcome), LAMBDA error_result :
            With(IF Truthy(JStr(DLQ_URL(environ)))
                 THEN send_to_dlq(environ, record["Sns"]["Message"], error_result, clk.dlq, send_ok)
                 ELSE Nothing, LAMBDA dead :
               IF ~dead.res.ok
               THEN Out(dead.res, dead.calls, <<>>)
               ELSE With(Notice(Message("ML Trigger Execution Error", <<>>), error_result, "error"),
                         LAMBDA notice :
                       Out(IF notice.res.ok THEN Return(error_result) ELSE notice.res,
                           dead.calls, notice.calls))))
       ELSE IF "Sns" \notin DOMAIN record
       \* the handler itself reads record['Sns'] and raises KeyError
       THEN Out(Raise("KeyError", "'{}'", <<<<"Sns">>>>), <<>>, <<>>)
       ELSE Out(Return(ErrorResult("unexpected", try.res, record, clk.outcome)), <<>>, <<>>))

\* An introspection that lets the exception of a constructor pass: the dict
\* it returns has an entry for every key of the registry.
get_available_triggers_Unguarded(environ) ==
    [name \in {TRIGGER_REGISTRY[j] : j \in 1..Len(TRIGGER_REGISTRY)} |->
        [trigger_type |-> TRIGGER_NAME,
         required_fields |-> REQUIRED_FIELDS,
         optional_fields |-> OPTIONAL_FIELDS]]

\* get_available_triggers: every class of the registry is constructed on a
\* dummy message; the schema of the ones whose constructor returns is kept,
\* the exception of the others is passed over.
get_available_triggers(environ) ==
    LET dummy_message(trigger_name) ==
            [trigger_type |-> JStr(trigger_name), data |-> JDict(EmptyDict),
             metadata |-> JDict(EmptyDict)]
        trigger(trigger_name) == BatchJobTrigger(dummy_message(trigger_name), environ)
        built == {j \in 1..Len(TRIGGER_REGISTRY) : trigger(TRIGGER_REGISTRY[j]).ok}
    IN [name \in {TRIGGER_REGISTRY[j] : j \in built} |-> as_dict(trigger(name).val)]

\* ------------------------------------------------------- delivered events

\* The raw string that serialises the JSON value v.
Raw(v) == [json |-> v]

script_a == <<"j", "/", "a", ".", "p", "y">>
script_txt == <<"a", ".", "t", "x", "t">>
\* jobs/transcribe_processor.py
script_example ==
    <<"j", "o", "b", "s", "/", "t", "r", "a", "n", "s", "c", "r", "i", "b", "e", "_", "p", "r", "o", "c", "e", "s", "s", "o", "r", ".", "p", "y">>
\* my job!.py
script_odd == <<"m", "y", " ", "j", "o", "b", "!", ".", "p", "y">>
\* v1.2/a.b.py
script_dots == <<"v", "1", ".", "2", "/", "a", ".", "b", ".", "p", "y">>
\* A script whose file name is longer than a job name may be.
LongStemLength == 113
script_long == <<"d", "/">> \o [n \in 1..LongStemLength |-> "a"] \o DotPy
message_1 == <<"m", "1">>

Envelope(data) == JDict([trigger_type |-> JStr(batch_job), data |-> JDict(data)])

\* Message bodies: no JSON; JSON that is no object; envelopes without, with an
\* empty, an unregistered and an unhashable trigger_type; batch_job envelopes
\* without data, with data null, and with data that passes or fails validate()
\* or fails inside execute(): resources at and below their bounds, timeouts,
\* an additional_env that collides with a computed key and holds a zero, one
\* that names the attribution and the compute type, a metadata that is null,
\* a job_name of the caller's, and script keys of several shapes.
Messages ==
    {[garbage |-> "{bad"],
     Raw(JList(<<>>)),
     Raw(JDict([data |-> JDict(EmptyDict)])),
     Raw(JDict([trigger_type |-> JStr(<<>>)])),
     Raw(JDict([trigger_type |-> JStr(tpu)])),
     Raw(JDict([trigger_type |-> JList(<<JStr(batch_job)>>)])),
     Raw(JDict([trigger_type |-> JStr(batch_job)])),
     Raw(JDict([trigger_type |-> JStr(batch_job), data |-> JNone])),
     Raw(Envelope([script_key |-> JStr(script_a)])),
     Raw(Envelope([script_key |-> JStr(script_txt)])),
     Raw(Envelope([script_key |-> JStr(script_a), compute_type |-> JStr(gpu), gpus |-> JInt(0)])),
     Raw(Envelope([script_key |-> JStr(script_a), timeout |-> JStr(<<"x">>)])),
     Raw(Envelope([script_key |-> JInt(5)])),
     Raw(Envelope([script_key |-> JStr(script_a), compute_type |-> JStr(tpu)])),
     Raw(Envelope([script_key |-> JStr(script_a), vcpus |-> JInt(0)])),
     Raw(Envelope([script_key |-> JStr(script_a), memory |-> JInt(255)])),
     Raw(Envelope([script_key |-> JStr(script_a), vcpus |-> JInt(1), memory |-> JInt(256)])),
     Raw(Envelope([script_key |-> JStr(script_a), timeout |-> JInt(0)])),
     Raw(Envelope([script_key |-> JStr(script_a),
                   additional_env |-> JDict([OUTPUT_PREFIX |-> JStr(<<"x">>),
                                             WORKERS |-> JInt(0)])])),
     Raw(Envelope([script_key |-> JStr(script_a), job_name |-> JStr(<<"m", "i", "n", "e">>)])),
     Raw(Envelope([script_key |-> JStr(script_example)])),
     Raw(Envelope([script_key |-> JStr(script_odd)])),
     Raw(Envelope([script_key |-> JStr(script_dots)])),
     Raw(Envelope([script_key |-> JStr(script_long)])),
     Raw(JDict([trigger_type |-> JStr(batch_job),
                data |-> JDict([script_key |-> JStr(script_a),
                                additional_env |-> JDict([TRIGGER_USER |-> JStr(<<"z">>),
                                                          COMPUTE_TYPE |-> JStr(cpu)])]),
                metadata |-> JDict([user |-> JStr(<<"u">>), project |-> JStr(<<"p">>)])])),
     Raw(JDict([trigger_type |-> JStr(batch_job),
                data |-> JDict([script_key |-> JStr(script_a)]),
                metadata |-> JNone])),
     Raw(Envelope([script_key |-> JStr(script_a), compute_type |-> JStr(cpu)])),
     Raw(JDict([trigger_type |-> JStr(batch_job),
                data |-> JDict([script_key |-> JStr(script_a), compute_type |-> JStr(cpu),
                                gpus |-> JInt(2), timeout |-> JInt(600),
                                additional_env |-> JDict([STAGE |-> JStr(<<"d">>)])]),
                metadata |-> JDict([user |-> JStr(<<"u">>)])]))}

\* The records of an event: an SNS record with its message and identifier, one
\* that lacks the identifier, one that lacks the message, and one without 'Sns'.
SnsRecords ==
    {[Sns |-> [Message |-> m, MessageId |-> message_1]] : m \in Messages}
    \cup {[Sns |-> [Message |-> Raw(Envelope([script_key |-> JStr(script_a)]))]],
          [Sns |-> [MessageId |-> message_1]],
          [EventSource |-> "aws:s3"]}

message_2 == <<"m", "2">>
message_3 == <<"m", "3">>

\* The records batches are made of, each with its own identifier: one that can
\* succeed, one that fails validation, one that is no JSON and one without 'Sns'.
BatchRecords ==
    {[Sns |-> [Message |-> Raw(Envelope([script_key |-> JStr(script_a)])),
               MessageId |-> message_1]],
     [Sns |-> [Message |-> Raw(JDict([trigger_type |-> JStr(batch_job)])),
               MessageId |-> message_2]],
     [Sns |-> [Message |-> [garbage |-> "{bad"], MessageId |-> message_3]],
     [EventSource |-> "aws:s3"]}

RECURSIVE SeqsUpTo(_, _)
\* The sequences over S of length at most n.
SeqsUpTo(S, n) ==
    IF n = 0 THEN {<<>>}
    ELSE LET shorter == SeqsUpTo(S, n - 1)
         IN shorter \cup {Append(q, x) : q \in shorter, x \in S}

\* Events whose 'Records' cannot be iterated, and an event without 'Records'.
OddEvents == {[Records |-> JNone], [source |-> "test"]}

\* Events of up to MaxBatch records.
Events ==
    {[Records |-> JList(q)] : q \in SeqsUpTo(BatchRecords, MaxBatch)} \cup OddEvents

\* Events of one record, of every shape.
SingleRecordEvents == {[Records |-> JList(<<r>>)] : r \in SnsRecords} \cup OddEvents

\* Deployments: everything configured, two defaults reconfigured; only what
\* BatchJobTrigger requires; the output bucket left out.
Environments ==
    {[BATCH_JOB_QUEUE |-> <<"g", "q">>, ML_PYTHON_JOB_DEFINITION |-> <<"g", "d">>,
      CPU_JOB_QUEUE |-> <<"c", "q">>, ML_PYTHON_CPU_JOB_DEFINITION |-> <<"c", "d">>,
      ML_OUTPUT_BUCKET |-> <<"o">>, ML_INPUT_BUCKET |-> <<"i">>,
      DLQ_URL |-> <<"d", "l", "q">>, ENABLE_NOTIFICATIONS |-> <<"T", "r", "u", "e">>,
      SNS_TOPIC_ARN |-> <<"a", "r", "n">>,
      DEFAULT_GPU_VCPUS |-> <<"8">>, DEFAULT_CPU_VCPUS |-> <<"1">>],
     [BATCH_JOB_QUEUE |-> <<"g", "q">>, ML_PYTHON_JOB_DEFINITION |-> <<"g", "d">>,
      ML_OUTPUT_BUCKET |-> <<"o">>],
     [BATCH_JOB_QUEUE |-> <<"g", "q">>, ML_PYTHON_JOB_DEFINITION |-> <<"g", "d">>,
      DLQ_URL |-> <<"d", "l", "q">>]}

\* Deployments of the notifications: the flag set and no topic, a topic and
\* the flag cleared.
NotificationEnvironments ==
    {[BATCH_JOB_QUEUE |-> <<"g", "q">>, ML_PYTHON_JOB_DEFINITION |-> <<"g", "d">>,
      ML_OUTPUT_BUCKET |-> <<"o">>, ENABLE_NOTIFICATIONS |-> <<"t", "r", "u", "e">>],
     [BATCH_JOB_QUEUE |-> <<"g", "q">>, ML_PYTHON_JOB_DEFINITION |-> <<"g", "d">>,
      ML_OUTPUT_BUCKET |-> <<"o">>, ENABLE_NOTIFICATIONS |-> <<"f", "a", "l", "s", "e">>,
      SNS_TOPIC_ARN |-> <<"a", "r", "n">>]}

\* One second before midnight of 2024-03-01.
StartInstant == SecondsPerDay - 1

\* 2024-03-01T10:15:30
MorningInstant == 10 * 3600 + 15 * 60 + 30

\* ------------------------------------------------------------------ state

VARIABLES
    event,        \* the event lambda_handler was invoked with
    environ,      \* os.environ of the deployment
    now,          \* the clock
    pc,           \* "records": in the loop of lambda_handler; "done": returned;
                  \* "introspect": get_available_triggers called; "listed": returned
    i,            \* the index of the next record of the loop
    results,      \* the list `results` of lambda_handler
    response,     \* what lambda_handler returned
    batch_calls,  \* every batch_client.submit_job call and the backend's answer
    dlq_sent,     \* every sqs_client.send_message call
    published,    \* every sns_client.publish call
    trace,        \* per record: how far process_sns_record got
    triggers      \* what get_available_triggers returned

vars == <<event, environ, now, pc, i, results, response, batch_calls, dlq_sent, published, trace, triggers>>

NoResponse == [statusCode |-> 0]

\* The process is entered through lambda_handler or get_available_triggers.
InitOn(events, environments, instants) ==
    /\ event \in events
    /\ environ \in environments
    /\ now \in instants
    /\ pc \in {"records", "introspect"}
    /\ i = 1
    /\ results = <<>>
    /\ response = NoResponse
    /\ batch_calls = <<>>
    /\ dlq_sent = <<>>
    /\ published = <<>>
    /\ trace = <<>>
    /\ triggers = EmptyDict

Init == InitOn(Events, Environments, {StartInstant})
InitRecord ==
    InitOn(SingleRecordEvents, Environments \cup NotificationEnvironments,
           {StartInstant, MorningInstant})

\* event.get('Records', [])
RecordsOf(e) == DictGet(e, "Records", JList(<<>>))

\* The records the loop of lambda_handler goes through.
Loop(e) == ValueOf(RecordsOf(e))

\* The clock reads made while one record is handled, in program order:
\* _generate_job_name, _generate_output_prefix, TIMESTAMP, submission_time,
\* the timestamp of the Outcome Record, the timestamp of the dead-letter message.
ClockSites == <<"name", "prefix", "stamp", "submitted", "outcome", "dlq">>

\* The instants read when the second changes right before read number tickAt
\* (0: it does not change while the record is handled).
Clock(t, tickAt) ==
    LET At(site) == IF tickAt # 0 /\ site >= tickAt THEN t + 1 ELSE t
    IN [name |-> At(1), prefix |-> At(2), stamp |-> At(3), submitted |-> At(4),
        outcome |-> At(5), dlq |-> At(6)]

\* The identifier the backend gives its n-th job.
JobId(n) == JStr(<<"j", "o", "b", "-">> \o Digits(n))

Accepted == {k \in 1..Len(batch_calls) : batch_calls[k].accepted}

\* A loop without the inner try: the record whose exception escapes leaves
\* nothing in the list.
AppendResult_DropEscaped(list, out, t) ==
    IF out.res.ok
    THEN Append(list, out.res.val)
    ELSE list

\* The list `results` after one iteration of the loop: the Outcome Record
\* process_sns_record returned is appended, or a record made of the exception
\* that escaped it.
AppendResult(list, out, t) ==
    IF out.res.ok
    THEN Append(list, out.res.val)
    ELSE Append(list, [status |-> "error", error |-> out.res.msg, timestamp |-> IsoFormat(t)])

\* One iteration of the loop of lambda_handler: process_sns_record on record i.
HandleRecord ==
    /\ pc = "records"
    /\ TypeOf(RecordsOf(event)) = "list"
    /\ i <= Len(Loop(event))
    /\ \E tickAt \in 0..Len(ClockSites), answer \in {"accept", "reject"},
          \* a service that is not configured is never asked, so it has one answer
          publish_ok \in IF Truthy(JStr(SNS_TOPIC_ARN(environ))) THEN BOOLEAN ELSE {TRUE},
          send_ok \in IF Truthy(JStr(DLQ_URL(environ))) THEN BOOLEAN ELSE {TRUE} :
          LET clk == Clock(now, tickAt)
          IN \E out \in {process_sns_record(Loop(event)[i], environ, clk, answer,
                                             JobId(Cardinality(Accepted) + 1), publish_ok, send_ok)} :
             /\ results' = AppendResult(results, out, clk.outcome)
             /\ batch_calls' =
                    batch_calls \o [k \in 1..Len(out.calls) |->
                                       [record |-> i, request |-> out.calls[k],
                                        accepted |-> answer = "accept",
                                        at |-> clk.name]]
             /\ dlq_sent' = dlq_sent \o [k \in 1..Len(out.sent) |->
                                            [record |-> i, message |-> out.sent[k]]]
             /\ published' = published \o [k \in 1..Len(out.published) |->
                                              [record |-> i, message |-> out.published[k]]]
             /\ trace' = Append(trace, [stage |-> out.stage, raised |-> out.raised,
                                        escaped |-> ~out.res.ok])
             /\ now' = IF tickAt = 0 THEN now ELSE now + 1
    /\ i' = i + 1
    /\ UNCHANGED <<event, environ, pc, response, triggers>>

\* any() in the place of all().
StatusCode_Any(list) ==
    IF \E k \in 1..Len(list) : list[k].status = "success" THEN 200 ELSE 400

\* 200 if all(r['status'] == 'success' for r in results) else 400
StatusCode(list) ==
    IF \A k \in 1..Len(list) : list[k].status = "success" THEN 200 ELSE 400

\* The return of lambda_handler after the loop.
ReturnResponse ==
    /\ pc = "records"
    /\ TypeOf(RecordsOf(event)) = "list"
    /\ i > Len(Loop(event))
    /\ response' =
           [statusCode |-> StatusCode(results),
            body |-> [results |-> results,
                      processed_count |-> Len(results),
                      success_count |->
                          Cardinality({k \in 1..Len(results) : results[k].status = "success"}),
                      error_count |->
                          Cardinality({k \in 1..Len(results) : results[k].status = "error"})],
            timestamp |-> IsoFormat(now)]
    /\ pc' = "done"
    /\ UNCHANGED <<event, environ, now, i, results, batch_calls, dlq_sent, published, trace, triggers>>

\* The outer except clause of lambda_handler: iterating over 'Records' raised.
FatalError ==
    /\ pc = "records"
    /\ TypeOf(RecordsOf(event)) # "list"
    /\ response' =
           [statusCode |-> 500,
            body |-> [error |-> "Internal Lambda error",
                      details |-> Message("'{}' object is not iterable",
                                          <<<<TypeOf(RecordsOf(event))>>>>)]]
    /\ pc' = "done"
    /\ UNCHANGED <<event, environ, now, i, results, batch_calls, dlq_sent, published, trace, triggers>>

\* One call of get_available_triggers.
GetAvailableTriggers ==
    /\ pc = "introspect"
    /\ triggers' = get_available_triggers(environ)
    /\ pc' = "listed"
    /\ UNCHANGED <<event, environ, now, i, results, response, batch_calls, dlq_sent, published, trace>>

Next == HandleRecord \/ ReturnResponse \/ FatalError \/ GetAvailableTriggers

\* lambda_handler on an event of up to MaxBatch records, or one introspection.
Spec == Init /\ [][Next]_vars

\* lambda_handler on an event of one record, over every shape of record and
\* deployment, or one introspection.
SpecRecord == InitRecord /\ [][Next]_vars

\* ------------------------------------------------------------- properties

\* The records handled so far, and what was recorded for record k.
Handled == 1..Len(results)
Rec(k) == Loop(event)[k]
CallsFor(k) == {c \in 1..Len(batch_calls) : batch_calls[c].record = k}
SendsFor(k) == {d \in 1..Len(dlq_sent) : dlq_sent[d].record = k}
Kind(k) == IF "error_type" \in DOMAIN results[k] THEN results[k].error_type ELSE "none"

\* The steps of process_sns_record in program order.
Stages == <<"record", "parse", "lookup", "construct", "validate", "execute", "finish", "returned">>
StageIndex(stage) == CHOOSE n \in 1..Len(Stages) : Stages[n] = stage
\* Record k got as far as the step `stage`.
Entered(k, stage) == StageIndex(trace[k].stage) >= StageIndex(stage)

HasMessage(k) == "Sns" \in DOMAIN Rec(k) /\ "Message" \in DOMAIN Rec(k)["Sns"]
RawMessage(k) == Rec(k)["Sns"]["Message"]
\* The message of record k is a JSON object.
IsEnvelope(k) ==
    HasMessage(k) /\ "json" \in DOMAIN RawMessage(k) /\ TypeOf(RawMessage(k).json) = "dict"
EnvelopeOf(k) == ValueOf(RawMessage(k).json)
DlqConfigured == Truthy(JStr(DLQ_URL(environ)))

\* C1: whenever a step inside execute() fails for a message that passed
\* validate(), in particular when the backend rejects the submission, execute()
\* raises ExecutionError and the Outcome Record has error_type 'execution'.
C1_ExecuteFailureIsExecutionError ==
    \A k \in Handled :
        trace[k].stage = "execute" =>
            /\ trace[k].raised = "ExecutionError"
            /\ Kind(k) = "execution"

\* C2: with a dead-letter queue configured, a record whose execution failed
\* gets exactly one dead-letter send and a record that ended in a
\* ValidationError gets none.
C2_OneDlqSendPerExecutionFailure ==
    DlqConfigured =>
        \A k \in Handled :
            /\ trace[k].stage = "execute" => Cardinality(SendsFor(k)) = 1
            /\ trace[k].raised = "ValidationError" => Cardinality(SendsFor(k)) = 0

\* C3: once the handler has returned, every record whose submission the backend
\* rejected has, when a dead-letter queue is configured and reachable, a
\* delivered dead-letter message holding its raw payload and the error.
C3_RejectedSubmissionReachesDlq ==
    (pc = "done" /\ DlqConfigured) =>
        \A k \in Handled :
            (\E c \in CallsFor(k) : ~batch_calls[c].accepted) =>
                \E d \in SendsFor(k) :
                    /\ dlq_sent[d].message.MessageBody.original_message = RawMessage(k)
                    /\ "error" \in DOMAIN dlq_sent[d].message.MessageBody

\* The data of envelope k is an object, or absent, and has no script_key.
LacksScriptKey(k) ==
    /\ IsEnvelope(k)
    /\ DictGet(EnvelopeOf(k), "trigger_type", JNone) = JStr(batch_job)
    /\ TypeOf(DictGet(EnvelopeOf(k), "data", JDict(EmptyDict))) = "dict"
    /\ "script_key" \notin DOMAIN ValueOf(DictGet(EnvelopeOf(k), "data", JDict(EmptyDict)))

\* C4: a record that ends in a ValidationError made no backend submission and
\* never entered execute(); a payload without script_key that reaches
\* validate() ends there in a ValidationError naming every required field it
\* lacks.
C4_ValidationNeverReachesBackend ==
    \A k \in Handled :
        /\ trace[k].raised = "ValidationError" =>
               CallsFor(k) = {} /\ ~Entered(k, "execute")
        /\ (LacksScriptKey(k) /\ Entered(k, "validate")) =>
               /\ trace[k].stage = "validate"
               /\ trace[k].raised = "ValidationError"
               /\ Kind(k) = "validation"
               /\ \A f \in 1..Len(REQUIRED_FIELDS) :
                      \E n \in 1..Len(results[k].error_message[3]) :
                          results[k].error_message[3][n] = REQUIRED_FIELDS[f]
               /\ CallsFor(k) = {}

C4_Witness ==
    \E k \in Handled :
        LacksScriptKey(k) /\ trace[k].stage = "validate" /\ Kind(k) = "validation"

FullSuccess(r) ==
    /\ r.status = "success"
    /\ {"job_id", "job_name", "resources", "output_prefix", "submission_time", "details",
        "trigger_type", "message_id", "timestamp"} \subseteq DOMAIN r
FullError(r) ==
    /\ r.status = "error"
    /\ {"error_type", "error_message", "timestamp"} \subseteq DOMAIN r
    /\ r.error_type \in {"validation", "execution", "unexpected"}

\* C5: every handled record has one Outcome Record, which is a fully populated
\* success record or a fully populated error record, whatever the record's shape.
C5_OutcomesFullyPopulated ==
    /\ Len(results) = Len(trace)
    /\ \A k \in Handled : FullSuccess(results[k]) \/ FullError(results[k])

\* The result at position k is the one of the record at position k: it carries
\* that record's identifier, or is the record of the exception that escaped.
Belongs(k) ==
    IF "Sns" \in DOMAIN Rec(k) /\ "MessageId" \in DOMAIN Rec(k)["Sns"]
    THEN "message_id" \in DOMAIN results[k] /\ results[k].message_id = Rec(k)["Sns"]["MessageId"]
    ELSE results[k].status = "error"

\* C6: the records of a batch are handled once each and in order, the k-th
\* result belongs to the k-th record, a failing record stops no later record,
\* and no step changes a result that is already in the list.
C6_RecordsHandledIndependently ==
    /\ [](/\ Len(results) = i - 1
          /\ Len(trace) = i - 1
          /\ \A k \in Handled : Belongs(k) /\ Cardinality(CallsFor(k)) <= 1
          /\ (pc = "done" /\ TypeOf(RecordsOf(event)) = "list") =>
                 Len(results) = Len(Loop(event)))
    /\ [][\A k \in Handled : results'[k] = results[k]]_vars

C6_Witness ==
    /\ pc = "done"
    /\ Len(results) = 2
    /\ trace[1].escaped
    /\ results[2].status = "success"

\* C7: a message that is a JSON object without trigger_type gives a validation
\* Outcome Record saying the field is required; no trigger is constructed and
\* no backend submission is made.
C7_MissingTriggerTypeIsValidation ==
    \A k \in Handled :
        (IsEnvelope(k) /\ "trigger_type" \notin DOMAIN EnvelopeOf(k)) =>
            /\ Kind(k) = "validation"
            /\ results[k].error_message = Message("Message must include 'trigger_type' field", <<>>)
            /\ ~Entered(k, "construct")
            /\ CallsFor(k) = {}

C7_Witness ==
    \E k \in Handled :
        IsEnvelope(k) /\ "trigger_type" \notin DOMAIN EnvelopeOf(k) /\ Kind(k) = "validation"

\* The error message msg lists every key of TRIGGER_REGISTRY after the type.
ListsRegistry(msg) ==
    \A j \in 1..Len(TRIGGER_REGISTRY) : \E n \in 3..Len(msg) : msg[n] = TRIGGER_REGISTRY[j]

Unregistered(k) ==
    /\ IsEnvelope(k)
    /\ "trigger_type" \in DOMAIN EnvelopeOf(k)
    /\ ~RegistryHas(EnvelopeOf(k)["trigger_type"])

UnknownTypeOutcome(k) ==
    /\ Kind(k) = "validation"
    /\ ListsRegistry(results[k].error_message)
    /\ CallsFor(k) = {}

\* C8 as stated: every message whose trigger_type is not a key of
\* TRIGGER_REGISTRY gives a validation Outcome Record whose message lists every
\* registered type, and no backend submission is made.
C8_UnregisteredListsRegistry ==
    \A k \in Handled : Unregistered(k) => UnknownTypeOutcome(k)

\* C8 amended: the same for a trigger_type that is a non-empty string.
C8_UnregisteredNameListsRegistry ==
    \A k \in Handled :
        (/\ Unregistered(k)
         /\ TypeOf(EnvelopeOf(k)["trigger_type"]) = "str"
         /\ ValueOf(EnvelopeOf(k)["trigger_type"]) # <<>>) => UnknownTypeOutcome(k)

C8_Witness ==
    \E k \in Handled :
        /\ Unregistered(k)
        /\ EnvelopeOf(k)["trigger_type"] = JStr(tpu)
        /\ UnknownTypeOutcome(k)

\* C9: for a batch of records the response has statusCode 200 exactly when
\* every outcome has status success and 400 otherwise, and its body carries
\* the outcomes, processed_count equal to the number of records, and
\* success_count + error_count = processed_count.
C9_BatchResponseAggregates ==
    (pc = "done" /\ TypeOf(RecordsOf(event)) = "list") =>
        /\ response.statusCode \in {200, 400}
        /\ response.statusCode = 200 <=> \A k \in Handled : results[k].status = "success"
        /\ response.body.results = results
        /\ response.body.processed_count = Len(Loop(event))
        /\ response.body.success_count + response.body.error_count
               = response.body.processed_count

C9_Witness ==
    /\ pc = "done"
    /\ response.statusCode = 400
    /\ response.body.success_count = 1
    /\ response.body.error_count = 1

\* C10: a record whose message is no JSON gives an Outcome Record of kind
\* unexpected, never validation, and no trigger is constructed.
C10_MalformedJsonIsUnexpected ==
    \A k \in Handled :
        (HasMessage(k) /\ "garbage" \in DOMAIN RawMessage(k)) =>
            /\ Kind(k) = "unexpected"
            /\ trace[k].stage = "parse"
            /\ CallsFor(k) = {}

C10_Witness ==
    \E k \in Handled :
        HasMessage(k) /\ "garbage" \in DOMAIN RawMessage(k) /\ Kind(k) = "unexpected"

PublishesFor(k) == {n \in 1..Len(published) : published[n].record = k}

\* C11: an exception other than ValidationError and ExecutionError raised by
\* the trigger's construction, validate() or execute() gives an Outcome Record
\* of kind unexpected; it does not leave process_sns_record, and no
\* dead-letter message and no notification is made for it.
C11_OtherExceptionsAreUnexpected ==
    \A k \in Handled :
        (/\ trace[k].stage \in {"construct", "validate", "execute"}
         /\ trace[k].raised \notin {"none", "ValidationError", "ExecutionError"}) =>
            /\ Kind(k) = "unexpected"
            /\ ~trace[k].escaped
            /\ SendsFor(k) = {}
            /\ PublishesFor(k) = {}

C11_Witness ==
    \E k \in Handled :
        /\ trace[k].stage = "validate"
        /\ trace[k].raised = "AttributeError"
        /\ Kind(k) = "unexpected"
        /\ DlqConfigured
        /\ ENABLE_NOTIFICATIONS(environ)

\* The data of envelope k, a batch_job envelope whose data is an object.
IsBatchJob(k) ==
    /\ IsEnvelope(k)
    /\ DictGet(EnvelopeOf(k), "trigger_type", JNone) = JStr(batch_job)
    /\ TypeOf(DictGet(EnvelopeOf(k), "data", JDict(EmptyDict))) = "dict"
Data(k) == ValueOf(DictGet(EnvelopeOf(k), "data", JDict(EmptyDict)))
\* The value the payload gives for a field, JNone when it gives none.
Given(k, field) == DictGet(Data(k), field, JNone)
Profile(k) == DictGet(Data(k), "compute_type", JStr(gpu))

\* C12: validate() on a payload that contains script_key returns or raises
\* ValidationError, never another exception.
C12_ValidateRaisesOnlyValidationError ==
    \A k \in Handled :
        (IsBatchJob(k) /\ "script_key" \in DOMAIN Data(k) /\ trace[k].stage = "validate") =>
            /\ trace[k].raised = "ValidationError"
            /\ Kind(k) = "validation"

\* The payload of record k passes the checks that precede the one on gpus.
PassesUpToGpus(k) ==
    /\ IsBatchJob(k)
    /\ "script_key" \in DOMAIN Data(k)
    /\ TypeOf(Given(k, "script_key")) = "str"
    /\ EndsWith(ValueOf(Given(k, "script_key")), DotPy)
    /\ Given(k, "vcpus") = JNone \/ (TypeOf(Given(k, "vcpus")) = "int" /\ ValueOf(Given(k, "vcpus")) >= 1)
    /\ Given(k, "memory") = JNone \/ (TypeOf(Given(k, "memory")) = "int" /\ ValueOf(Given(k, "memory")) >= 256)

GpuProfileWithoutGpus(k) ==
    /\ PassesUpToGpus(k)
    /\ Profile(k) = JStr(gpu)
    /\ TypeOf(Given(k, "gpus")) = "int"
    /\ ValueOf(Given(k, "gpus")) < 1

CpuProfileWithGpus(k) ==
    /\ PassesUpToGpus(k)
    /\ Profile(k) = JStr(cpu)
    /\ TypeOf(Given(k, "gpus")) = "int"
    /\ ValueOf(Given(k, "gpus")) # 0

\* C13: a payload of the gpu profile with gpus below 1 is rejected by
\* validate() with ValidationError and never submitted; a payload of the cpu
\* profile with gpus other than 0 passes validate() and is submitted.
C13_GpuCountAsymmetry ==
    \A k \in Handled :
        /\ (GpuProfileWithoutGpus(k) /\ Entered(k, "validate")) =>
               /\ trace[k].stage = "validate"
               /\ trace[k].raised = "ValidationError"
               /\ CallsFor(k) = {}
        /\ (CpuProfileWithGpus(k) /\ Entered(k, "validate")) =>
               /\ Entered(k, "execute")
               /\ Cardinality(CallsFor(k)) = 1

C13_Witness ==
    \E k \in Handled :
        /\ CpuProfileWithGpus(k)
        /\ Given(k, "gpus") = JInt(2)
        /\ \E c \in CallsFor(k) : batch_calls[c].accepted
        /\ results[k].status = "success"

\* The default the deployment configures under `name`, `builtin` when it
\* configures none.
Configured(name, builtin) == IF name \in DOMAIN environ THEN ParseInt(environ[name]) ELSE builtin

\* The default of a resource for the compute profile of record k.
DefaultOf(k, field) ==
    IF Profile(k) = JStr(gpu)
    THEN CASE field = "vcpus" -> Configured("DEFAULT_GPU_VCPUS", 4)
           [] field = "memory" -> Configured("DEFAULT_GPU_MEMORY", 16384)
           [] field = "gpus" -> Configured("DEFAULT_GPU_GPUS", 1)
    ELSE CASE field = "vcpus" -> Configured("DEFAULT_CPU_VCPUS", 2)
           [] field = "memory" -> Configured("DEFAULT_CPU_MEMORY", 4096)
           [] field = "gpus" -> 0

\* The explicit value of the payload when it gives one, else the default.
ExplicitOrDefault(k, field) ==
    IF Given(k, field) # JNone THEN Given(k, field) ELSE JInt(DefaultOf(k, field))

Succeeded(k) == results[k].status = "success"

\* C14 as stated: in a success outcome each of vcpus, memory and gpus is the
\* payload's explicit value when it gives one and else the configured default
\* of the compute profile, and compute_type is gpu when the payload gives none.
C14_ExplicitResourcesWin ==
    \A k \in Handled :
        Succeeded(k) =>
            /\ results[k].compute_type = Profile(k)
            /\ \A field \in {"vcpus", "memory", "gpus"} :
                   results[k].resources[field] = ExplicitOrDefault(k, field)

\* C14 amended: the same for vcpus and memory, and for gpus under the gpu
\* profile; under the cpu profile the outcome reports gpus 0 whatever the
\* payload gives.
C14_ExplicitResourcesWinButCpuGpus ==
    \A k \in Handled :
        Succeeded(k) =>
            /\ results[k].compute_type = Profile(k)
            /\ \A field \in {"vcpus", "memory"} :
                   results[k].resources[field] = ExplicitOrDefault(k, field)
            /\ results[k].resources["gpus"] =
                   IF Profile(k) = JStr(gpu) THEN ExplicitOrDefault(k, "gpus") ELSE JInt(0)

C14_Witness ==
    \E k \in Handled :
        /\ Succeeded(k)
        /\ Profile(k) = JStr(cpu)
        /\ Given(k, "gpus") = JInt(2)
        /\ Given(k, "vcpus") = JNone
        /\ "DEFAULT_CPU_VCPUS" \in DOMAIN environ
        /\ results[k].resources = [vcpus |-> JInt(1), memory |-> JInt(4096), gpus |-> JInt(0)]

\* The numbers the request of call c asks for under a requirement type.
Required(c, type) ==
    {ParseInt(batch_calls[c].request.resourceRequirements[n].value) :
        n \in {x \in 1..Len(batch_calls[c].request.resourceRequirements) :
                  batch_calls[c].request.resourceRequirements[x].type = type}}

Calls == 1..Len(batch_calls)

C16_RequestsCarryPositiveTimeout ==
    \A c \in Calls :
        /\ TypeOf(batch_calls[c].request.timeout) = "int"
        /\ ValueOf(batch_calls[c].request.timeout) > 0
        /\ batch_calls[c].request.timeout =
               IF "timeout" \in DOMAIN Data(batch_calls[c].record)
               THEN Given(batch_calls[c].record, "timeout") ELSE JInt(3600)

\* The job name of call c was generated: the payload gives no job_name.
GeneratedName(c) == ~Truthy(Given(batch_calls[c].record, "job_name"))
JobName(c) == ValueOf(batch_calls[c].request.jobName)
ScriptKey(c) == ValueOf(Given(batch_calls[c].record, "script_key"))

NoChar(q, ch) == \A n \in 1..Len(q) : q[n] # ch
\* The final path segment of a key: its suffix without '/' that starts the key
\* or follows a '/'.
FinalSegment(key) ==
    CHOOSE g \in {SubSeq(key, n, Len(key)) : n \in 1..(Len(key) + 1)} :
        NoChar(g, "/") /\ (Len(g) = Len(key) \/ key[Len(key) - Len(g)] = "/")
\* A segment without its last extension: what precedes its last '.'.
Stem(seg) ==
    IF NoChar(seg, ".") THEN seg
    ELSE CHOOSE q \in {SubSeq(seg, 1, n) : n \in 0..(Len(seg) - 1)} :
             seg[Len(q) + 1] = "." /\ NoChar(SubSeq(seg, Len(q) + 2, Len(seg)), ".")
\* The stem with every character that is not alphanumeric, '-' or '_' replaced.
Base(key) ==
    With(Stem(FinalSegment(key)), LAMBDA stem :
        [n \in 1..Len(stem) |-> IF IsAlnum(stem[n]) \/ stem[n] \in {"-", "_"} THEN stem[n] ELSE "-"])
\* The base cut to what the timestamp of 15 characters and the '-' before it
\* leave of 128.
CutBase(key) ==
    With(Base(key), LAMBDA base :
        IF Len(base) <= 128 - 16 THEN base ELSE SubSeq(base, 1, 128 - 16))

\* C17: a generated job name is the base of the script key, cut so that the
\* name has at most 128 characters, then '-', then the whole timestamp
\* YYYYMMDD-HHMMSS of the instant it is generated at;
\* jobs/transcribe_processor.py at 2024-03-01T10:15:30 gives
\* transcribe_processor-20240301-101530.
C17_GeneratedJobNames ==
    \A c \in Calls :
        GeneratedName(c) =>
            /\ Len(JobName(c)) <= 128
            /\ JobName(c) = CutBase(ScriptKey(c)) \o <<"-">> \o CompactTimestamp(batch_calls[c].at)
            /\ (ScriptKey(c) = script_example /\ batch_calls[c].at = MorningInstant) =>
                   JobName(c) = <<"t", "r", "a", "n", "s", "c", "r", "i", "b", "e", "_", "p", "r", "o", "c", "e", "s", "s", "o", "r", "-", "2", "0", "2", "4", "0", "3", "0", "1", "-", "1", "0", "1", "5", "3", "0">>

C17_Witness ==
    \E c \in Calls :
        /\ GeneratedName(c)
        /\ ScriptKey(c) = script_long
        /\ Len(JobName(c)) = 128
        /\ SubSeq(JobName(c), 128 - 14, 128) = CompactTimestamp(batch_calls[c].at)

AcceptedCalls == {c \in Calls : batch_calls[c].accepted}

\* C18 as stated: no two successful submissions carry the same job_name.
C18_JobNamesUnique ==
    \A c, d \in AcceptedCalls :
        c # d => batch_calls[c].request.jobName # batch_calls[d].request.jobName

\* C18 amended: two successful submissions whose job names were generated in
\* different seconds carry different job names.
C18_JobNamesUniqueAcrossSeconds ==
    \A c, d \in AcceptedCalls :
        (/\ GeneratedName(c)
         /\ GeneratedName(d)
         /\ batch_calls[c].at # batch_calls[d].at) =>
            batch_calls[c].request.jobName # batch_calls[d].request.jobName

C18_Witness ==
    \E c, d \in AcceptedCalls :
        /\ GeneratedName(c)
        /\ GeneratedName(d)
        /\ ScriptKey(c) = ScriptKey(d)
        /\ batch_calls[d].at = batch_calls[c].at + 1
        /\ SubSeq(JobName(c), 1, Len(JobName(c)) - 2) = SubSeq(JobName(d), 1, Len(JobName(d)) - 2)
        /\ JobName(c) # JobName(d)

\* results/{date}/{job_name}/ for the date of instant t.
PrefixOf(job_name, t) ==
    <<"r", "e", "s", "u", "l", "t", "s", "/">> \o IsoDate(t) \o <<"/">> \o job_name \o <<"/">>

\* The output prefix of successful record k, in its Outcome Record and in the
\* environment of its request, is results/{date}/{job_name}/ for the job name
\* of that record and the date the prefix was made on.
PrefixFollowsPolicy(k) ==
    \E c \in CallsFor(k) :
        /\ results[k].job_name = batch_calls[c].request.jobName
        /\ \E t \in {batch_calls[c].at, batch_calls[c].at + 1} :
               /\ results[k].output_prefix = JStr(PrefixOf(JobName(c), t))
               /\ "OUTPUT_PREFIX" \in DOMAIN batch_calls[c].request.environment
               /\ batch_calls[c].request.environment["OUTPUT_PREFIX"] = PrefixOf(JobName(c), t)

\* C19 as stated: every successful dispatch has the output prefix
\* results/{submission date}/{job_name}/ in its Outcome Record and in the
\* worker's OUTPUT_PREFIX.
C19_OutputPrefixFromNameAndDate ==
    \A k \in Handled : Succeeded(k) => PrefixFollowsPolicy(k)

\* The additional_env of the payload of record k, {} when it gives none.
AdditionalEnv(k) == ValueOf(DictGet(Data(k), "additional_env", JDict(EmptyDict)))

\* C19 amended: the same for a payload whose additional_env has no key
\* OUTPUT_PREFIX.
C19_OutputPrefixUnlessOverridden ==
    \A k \in Handled :
        (Succeeded(k) /\ "OUTPUT_PREFIX" \notin DOMAIN AdditionalEnv(k)) => PrefixFollowsPolicy(k)

C19_Witness ==
    \E k \in Handled :
        /\ Succeeded(k)
        /\ Given(k, "job_name") = JStr(<<"m", "i", "n", "e">>)
        /\ results[k].output_prefix = JStr(PrefixOf(<<"m", "i", "n", "e">>, now))
        /\ PrefixFollowsPolicy(k)

\* C20: every key of the payload's additional_env is in the environment of
\* the submission request with the value additional_env gives it, also when
\* the key is one of the computed ones.
C20_AdditionalEnvWins ==
    \A c \in Calls :
        \A key \in DOMAIN AdditionalEnv(batch_calls[c].record) :
            /\ key \in DOMAIN batch_calls[c].request.environment
            /\ batch_calls[c].request.environment[key]
                   = PyStr(AdditionalEnv(batch_calls[c].record)[key])

\* What the worker has to find in its environment: the input bucket and key,
\* the output bucket and prefix, the compute profile, the attribution fields
\* and a timestamp.
MinimumEnvironment ==
    {"INPUT_BUCKET", "INPUT_KEY", "OUTPUT_BUCKET", "OUTPUT_PREFIX", "COMPUTE_TYPE",
     "TRIGGER_USER", "TRIGGER_PROJECT", "TRIGGER_EXPERIMENT", "TIMESTAMP"}

\* C21: the environment of every submission request made has a variable for
\* the input bucket, the input key, the output bucket, the output prefix, the
\* compute profile, the user, the project, the experiment and the timestamp,
\* whatever the payload and the deployment.
C21_EnvironmentCarriesMinimum ==
    \A c \in Calls : MinimumEnvironment \subseteq DOMAIN batch_calls[c].request.environment

\* The metadata of envelope k, {} when it has none.
Metadata(k) == ValueOf(DictGet(EnvelopeOf(k), "metadata", JDict(EmptyDict)))

\* C22: in every success Outcome Record user, project and experiment are the
\* values of the message's metadata, 'unknown', 'unknown' and '' for the ones
\* it does not give, whatever the data of the message holds.
C22_AttributionFromMetadata ==
    \A k \in Handled :
        Succeeded(k) =>
            /\ results[k].details.user = DictGet(Metadata(k), "user", JStr(unknown))
            /\ results[k].details.project = DictGet(Metadata(k), "project", JStr(unknown))
            /\ results[k].details.experiment = DictGet(Metadata(k), "experiment", JStr(<<>>))

\* C23: every invocation of execute(), that is every record that passed
\* validate(), makes exactly one backend submission call: not two, and not
\* none.
C23_ExecuteSubmitsExactlyOnce ==
    \A k \in Handled : Entered(k, "execute") => Cardinality(CallsFor(k)) = 1

\* The entry of a trigger: its name, its required and its optional fields.
IsSchema(entry) == DOMAIN entry = {"trigger_type", "required_fields", "optional_fields"}

\* C24: get_available_triggers returns an entry with the trigger's name, its
\* required and its optional fields for every key of TRIGGER_REGISTRY,
\* whatever the deployment configures, and makes no backend submission, no
\* dead-letter send and no publish.
C24_IntrospectionListsRegistry ==
    pc = "listed" =>
        /\ \A j \in 1..Len(TRIGGER_REGISTRY) :
               /\ TRIGGER_REGISTRY[j] \in DOMAIN triggers
               /\ IsSchema(triggers[TRIGGER_REGISTRY[j]])
        /\ batch_calls = <<>> /\ dlq_sent = <<>> /\ published = <<>>

\* The trigger process_sns_record constructs for record k.
Trigger(k) == BatchJobTrigger(EnvelopeOf(k), environ).val

\* The resources the checks of validate() are made on, for record k.
Validated(k) ==
    ValidateDefaults(Trigger(k), Profile(k), Given(k, "vcpus"), Given(k, "memory"), Given(k, "gpus"))

\* The resources execute() resolves for record k.
Executed(k) ==
    ResolveDefaults(Trigger(k), Profile(k), Given(k, "vcpus"), Given(k, "memory"), Given(k, "gpus"))

\* The value the request of call c carries under a requirement type.
RequiredValues(c, type) ==
    {batch_calls[c].request.resourceRequirements[n].value :
        n \in {x \in 1..Len(batch_calls[c].request.resourceRequirements) :
                  batch_calls[c].request.resourceRequirements[x].type = type}}

\* C25: for every payload that reaches validate() the resources validate()
\* resolves and checks are the ones execute() resolves, and every submission
\* request carries the values validate() checked: its VCPU and MEMORY
\* requirement and, for the gpu profile, its GPU requirement.
C25_ValidatedResourcesAreSubmitted ==
    /\ \A k \in Handled :
           (IsBatchJob(k) /\ Entered(k, "validate")) => Validated(k) = Executed(k)
    /\ \A c \in Calls :
           /\ RequiredValues(c, "VCPU") = {PyStr(Validated(batch_calls[c].record).vcpus)}
           /\ RequiredValues(c, "MEMORY") = {PyStr(Validated(batch_calls[c].record).memory)}
           /\ Profile(batch_calls[c].record) = JStr(gpu) =>
                  RequiredValues(c, "GPU") = {PyStr(Validated(batch_calls[c].record).gpus)}

C25_Witness ==
    \E c \in Calls :
        /\ Profile(batch_calls[c].record) = JStr(cpu)
        /\ Given(batch_calls[c].record, "gpus") = JNone
        /\ "DEFAULT_CPU_VCPUS" \in DOMAIN environ
        /\ Validated(batch_calls[c].record) = [vcpus |-> JInt(1), memory |-> JInt(4096), gpus |-> JInt(0)]
        /\ RequiredValues(c, "VCPU") = {<<"1">>}
        /\ RequiredValues(c, "GPU") = {}

\* The resources execute() resolves for record k when the payload gives the
\* resources r explicitly.
ExecutedOn(k, r) == ResolveDefaults(Trigger(k), Profile(k), r.vcpus, r.memory, r.gpus)

\* C26: resolving the defaults of a payload, then resolving again with the
\* resolved vcpus, memory and gpus given as explicit values under the same
\* compute type, gives the same vcpus, memory and gpus.
C26_ResolutionIdempotent ==
    \A k \in Handled :
        (IsBatchJob(k) /\ Entered(k, "validate")) => ExecutedOn(k, Executed(k)) = Executed(k)

C26_Witness ==
    \E k \in Handled :
        /\ Succeeded(k)
        /\ Profile(k) = JStr(cpu)
        /\ Given(k, "vcpus") = JNone
        /\ Given(k, "gpus") = JInt(2)
        /\ Executed(k) = [vcpus |-> JInt(2), memory |-> JInt(4096), gpus |-> JInt(2)]
        /\ ExecutedOn(k, Executed(k)) = Executed(k)

Request(c) == batch_calls[c].request

\* The queue, the job definition and the GPU requirement of call c are the
\* ones of the compute profile of its payload, and a success outcome of the
\* cpu profile reports no GPU.
RoutedByProfile(c) ==
    IF Profile(batch_calls[c].record) = JStr(cpu)
    THEN /\ Request(c).jobQueue = EnvGet(environ, "CPU_JOB_QUEUE", <<>>)
         /\ Request(c).jobDefinition = EnvGet(environ, "ML_PYTHON_CPU_JOB_DEFINITION", <<>>)
         /\ RequiredValues(c, "GPU") = {}
         /\ Succeeded(batch_calls[c].record) =>
                results[batch_calls[c].record].resources.gpus = JInt(0)
    ELSE /\ Request(c).jobQueue = environ["BATCH_JOB_QUEUE"]
         /\ Request(c).jobDefinition = environ["ML_PYTHON_JOB_DEFINITION"]
         /\ RequiredValues(c, "GPU") # {}

\* The worker of call c is told the compute profile of its payload.
WorkerToldProfile(c) ==
    /\ "COMPUTE_TYPE" \in DOMAIN Request(c).environment
    /\ Request(c).environment["COMPUTE_TYPE"] = ValueOf(Profile(batch_calls[c].record))

\* C27 as stated: every submission request goes to the queue and the job
\* definition of its payload's compute profile, carries a GPU requirement
\* exactly under the gpu profile, and hands that profile to the worker as
\* COMPUTE_TYPE; a cpu outcome reports gpus 0.
C27_RequestAgreesWithProfile ==
    \A c \in Calls : RoutedByProfile(c) /\ WorkerToldProfile(c)

\* C27 amended: the same, the worker being told the profile when the
\* payload's additional_env has no key COMPUTE_TYPE.
C27_RequestAgreesWithProfileUnlessOverridden ==
    \A c \in Calls :
        /\ RoutedByProfile(c)
        /\ "COMPUTE_TYPE" \notin DOMAIN AdditionalEnv(batch_calls[c].record) => WorkerToldProfile(c)

C27_Witness ==
    \E c \in Calls :
        /\ Profile(batch_calls[c].record) = JStr(cpu)
        /\ Given(batch_calls[c].record, "gpus") = JInt(2)
        /\ Request(c).jobQueue = <<"c", "q">>
        /\ Request(c).jobDefinition = <<"c", "d">>
        /\ Succeeded(batch_calls[c].record)
        /\ RoutedByProfile(c)
        /\ WorkerToldProfile(c)

\* The backend created a job for record k.
JobCreated(k) == \E c \in CallsFor(k) : batch_calls[c].accepted

\* C28: the Outcome Record of a record has status success exactly when the
\* backend accepted a submission for that record; a record with an error
\* outcome has no job.
C28_SuccessIffJobCreated ==
    \A k \in Handled : Succeeded(k) <=> JobCreated(k)

\* The YYYYMMDD of the timestamp a generated job name ends with.
NameDate(job_name) == SubSeq(job_name, Len(job_name) - 14, Len(job_name) - 7)

\* The digits of the YYYY-MM-DD that follows 'results/' in an output prefix.
PrefixDate(prefix) == SubSeq(prefix, 9, 12) \o SubSeq(prefix, 14, 15) \o SubSeq(prefix, 17, 18)

\* C29: in a success outcome whose job name was generated and whose prefix
\* was computed, the date of output_prefix is the date in the job name,
\* wherever the second changes between the clock reads of execute().
C29_PrefixDateIsNameDate ==
    \A k \in Handled :
        (/\ Succeeded(k)
         /\ ~Truthy(Given(k, "job_name"))
         /\ "OUTPUT_PREFIX" \notin DOMAIN AdditionalEnv(k)) =>
            PrefixDate(ValueOf(results[k].output_prefix)) = NameDate(ValueOf(results[k].job_name))

\* The deployment enables notifications and names a topic.
FlagAndTopic ==
    /\ "ENABLE_NOTIFICATIONS" \in DOMAIN environ
    /\ Lower(environ["ENABLE_NOTIFICATIONS"]) = <<"t", "r", "u", "e">>
    /\ "SNS_TOPIC_ARN" \in DOMAIN environ
    /\ environ["SNS_TOPIC_ARN"] # <<>>

\* C30: a record has at most one publish, made only when the flag is set
\* and a topic is configured and never for an unexpected error; whether the
\* publish or the dead-letter send is delivered or fails, the Outcome Record
\* returned for the record is the one the notification and the dead-letter
\* message were made from.
C30_SideChannelFailuresSwallowed ==
    \A k \in Handled :
        /\ Cardinality(PublishesFor(k)) <= 1
        /\ \A n \in PublishesFor(k) :
               /\ FlagAndTopic
               /\ ~trace[k].escaped
               /\ Kind(k) # "unexpected"
               /\ published[n].message.message_type = IF Succeeded(k) THEN "success" ELSE "error"
               /\ published[n].message.Message = format_notification(results[k])
        /\ \A d \in SendsFor(k) :
               /\ ~trace[k].escaped
               /\ Kind(k) = "execution"
               /\ dlq_sent[d].message.MessageBody.error = results[k]

C30_Witness ==
    \E k \in Handled :
        \E n \in PublishesFor(k) :
            /\ ~published[n].message.delivered
            /\ Succeeded(k)
            /\ JobCreated(k)
            /\ published[n].message.Message = format_notification(results[k])

====
